---- MODULE Spec2Model ----
(***************************************************************************)
(* A model of the DVC class of sourcecontrol.py: the persisted metadata    *)
(* document (branches, current_branch, head, staging), the object store,   *)
(* the working files and the ignore files, and one action per method.      *)
(*                                                                         *)
(* Strings the code inspects character by character (paths, ignore lines)  *)
(* are sequences of one-character strings: "/w/r" is <<"/","w","/","r">>.  *)
(* Dictionaries are functions; the order of a dictionary's keys (and so    *)
(* the order of the list merge returns) is not modelled.                   *)
(***************************************************************************)
EXTENDS Integers, Sequences, FiniteSets, TLC

VARIABLES
    meta,        \* the document in .dvc/metadata.json
    objects,     \* .dvc/objects: the set of <<digest, file name>> slots
    fs,          \* working files: absolute path -> content, or NoFile
    dvcignore,   \* <root>/.dvc/.dvcignore: NoIgnore or IgnoreFile(lines)
    rootignore,  \* <root>/.dvcignore: NoIgnore or IgnoreFile(lines)
    clones,      \* clone target path -> NoDir or the copied tree
    now,         \* the clock datetime.now() reads
    last,        \* the last call of a DVC method: [op, arg, ret, out]
    procs        \* processes that run a method as load, then mutate and save:
                 \* process -> [pc, op, arg, metadata, out]

vars == <<meta, objects, fs, dvcignore, rootignore, clones, now, last, procs>>

-----------------------------------------------------------------------------
(* Bounds of the model *)

\* commits and merge commits created in one behaviour
MaxCommits == 3

-----------------------------------------------------------------------------
(* Values *)

None == <<>>
NoFile == "NoFile"
\* a directory that does not exist; a clone target that does is a CopyTree
NoDir == [exists |-> FALSE, entries |-> {}, metadata |-> <<>>, objects |-> {}]
\* an ignore file that does not exist; one that does holds a set of lines
NoIgnore == [exists |-> FALSE, lines |-> {}]
IgnoreFile(lines) == [exists |-> TRUE, lines |-> lines]
EmptyMap == [x \in {} |-> x]

\* the process's working directory, and the repo_path argument of DVC(...)
Cwd == <<"/", "w">>
RepoArg == <<"r">>

-----------------------------------------------------------------------------
(* os.path, on character sequences *)

RECURSIVE SplitAcc(_, _, _, _)
SplitAcc(s, i, cur, acc) ==
    IF i > Len(s) THEN Append(acc, cur)
    ELSE IF s[i] = "/" THEN SplitAcc(s, i + 1, <<>>, Append(acc, cur))
    ELSE SplitAcc(s, i + 1, Append(cur, s[i]), acc)

\* s.split('/')
Split(s) == SplitAcc(s, 1, <<>>, <<>>)

RECURSIVE JoinFrom(_, _)
JoinFrom(comps, i) ==
    IF i > Len(comps) THEN <<>>
    ELSE IF i = Len(comps) THEN comps[i]
    ELSE comps[i] \o <<"/">> \o JoinFrom(comps, i + 1)

\* '/'.join(comps)
Join(comps) == JoinFrom(comps, 1)

\* s.startswith(p): a comparison of characters, not of path components
startswith(s, p) == Len(s) >= Len(p) /\ SubSeq(s, 1, Len(p)) = p

isabs(p) == Len(p) > 0 /\ p[1] = "/"

RECURSIVE NormComps(_, _, _, _)
NormComps(comps, i, abs, new) ==
    IF i > Len(comps) THEN new
    ELSE LET c == comps[i] IN
         IF c = <<>> \/ c = <<".">> THEN NormComps(comps, i + 1, abs, new)
         ELSE IF \/ c # <<".", ".">>
                 \/ (~abs /\ new = <<>>)
                 \/ (new # <<>> /\ new[Len(new)] = <<".", ".">>)
              THEN NormComps(comps, i + 1, abs, Append(new, c))
         ELSE IF new # <<>>
              THEN NormComps(comps, i + 1, abs, SubSeq(new, 1, Len(new) - 1))
         ELSE NormComps(comps, i + 1, abs, new)

normpath(p) ==
    LET body == Join(NormComps(Split(p), 1, isabs(p), <<>>))
        path == IF isabs(p) THEN <<"/">> \o body ELSE body
    IN  IF path = <<>> THEN <<".">> ELSE path

abspath(p) == IF isabs(p) THEN normpath(p) ELSE normpath(Cwd \o <<"/">> \o p)

\* the non-empty components of a path
Parts(p) == SelectSeq(Split(p), LAMBDA c : c # <<>>)

RECURSIVE CommonLen(_, _, _)
CommonLen(a, b, i) ==
    IF i < Len(a) /\ i < Len(b) /\ a[i + 1] = b[i + 1]
    THEN CommonLen(a, b, i + 1) ELSE i

RECURSIVE Ups(_)
Ups(n) == IF n = 0 THEN <<>> ELSE <<(<<".", ".">>)>> \o Ups(n - 1)

relpath(path, start) ==
    LET start_list == Parts(abspath(start))
        path_list == Parts(abspath(path))
        i == CommonLen(start_list, path_list, 0)
        rel_list == Ups(Len(start_list) - i)
                    \o SubSeq(path_list, i + 1, Len(path_list))
    IN  IF rel_list = <<>> THEN <<".">> ELSE Join(rel_list)

basename(p) == LET c == Split(p) IN c[Len(c)]

-----------------------------------------------------------------------------
(* Inputs *)

\* self.repo_path
repo_path == abspath(RepoArg)

\* The paths handed to add: files a and b of the repository (a also by its
\* absolute name), a name c in the repository that no file has, a file of
\* the sibling directory /w/r2, a file of the unrelated directory /w/o, and
\* a file of the repository whose name " b " begins and ends with a space.
\* The editor rewrites a with one of two contents.
Contents == {"v1", "v2"}
PathA == <<"r", "/", "a">>
PathB == <<"r", "/", "b">>
PathC == <<"r", "/", "c">>
PathAbsA == <<"/", "w", "/", "r", "/", "a">>
PathSibling == <<"r", "2", "/", "a">>
PathOutside == <<"o", "/", "a">>
PathPadded == <<"r", "/", " ", "b", " ">>
RepoPaths == {PathA, PathB}
AddPaths == {PathA, PathB, PathC, PathAbsA, PathSibling, PathOutside, PathPadded}
Files == {abspath(p) : p \in AddPaths}
FileA == abspath(PathA)

\* lines an ignore file may hold
LineA == <<"a">>
LineBPadded == <<" ", "b", " ">>
LineBlank == <<" ">>
IgnoreContents == {{}, {LineA}, {LineBPadded, LineBlank}}

Messages == {<<"m">>}
BranchNames == {"main", "f"}
CloneTargets == {<<"c">>, RepoArg}
BogusId == <<"main">>

-----------------------------------------------------------------------------
(* Return values of a call, as last.ret *)

RetNone == [kind |-> "None", val |-> <<>>]
RetList(paths) == [kind |-> "list", val |-> <<paths>>]
RetRaise(error) == [kind |-> error, val |-> <<>>]
RetText(text) == [kind |-> text, val |-> <<>>]
\* ', '.join(paths) or 'None': the names a line of the report lists, in no
\* order, the word None standing for an empty set
JoinOrNone(paths) == IF paths = {} THEN {<<"N", "o", "n", "e">>} ELSE paths
RetDiff(added, removed, modified) ==
    [kind |-> "diff",
     val |-> <<JoinOrNone(added), JoinOrNone(removed), JoinOrNone(modified)>>]

Raised(ret) == ret.kind \in {"ValueError", "FileNotFoundError"}

\* out is the line the call prints last; a call that runs from its load to
\* its save with no other process in between leaves the processes alone
Called(op, arg, ret, out) ==
    /\ last' = [op |-> op, arg |-> arg, ret |-> ret, out |-> out]
    /\ UNCHANGED procs

-----------------------------------------------------------------------------
(* hash_file, init *)

\* hashlib.sha1 of a byte string, taken to be injective
Sha1(bytes) == <<"sha1", bytes>>

hash_file(path) == Sha1(fs[path])

\* the working files when the repository is initialised: every file of the
\* model but c exists
InitialFiles == [p \in Files |-> IF p = abspath(PathC) THEN NoFile ELSE "v1"]

\* two processes, each about to call a method of its own DVC object
Procs == {1, 2}
Idle == [pc |-> "idle", op |-> "", arg |-> <<>>, metadata |-> <<>>, out |-> ""]

Init ==
    /\ meta = [branches |-> ("main" :> <<>>),
               current_branch |-> "main",
               head |-> None,
               staging |-> EmptyMap]
    /\ objects = {}
    /\ fs = InitialFiles
    /\ dvcignore = NoIgnore
    /\ rootignore = NoIgnore
    /\ clones = [t \in CloneTargets |-> NoDir]
    /\ now = 0
    /\ last = [op |-> "init", arg |-> <<>>, ret |-> RetNone,
               out |-> "Repository initialized."]
    /\ procs = [p \in Procs |-> Idle]

-----------------------------------------------------------------------------
(* The environment: the user's editor writes working files and ignore files *)

WriteFile(path, bytes) ==
    /\ fs' = [fs EXCEPT ![path] = bytes]
    /\ UNCHANGED <<meta, objects, dvcignore, rootignore, clones, now, last, procs>>

WriteDvcIgnore(lines) ==
    /\ dvcignore' = IgnoreFile(lines)
    /\ UNCHANGED <<meta, objects, fs, rootignore, clones, now, last, procs>>

WriteRootIgnore(lines) ==
    /\ rootignore' = IgnoreFile(lines)
    /\ UNCHANGED <<meta, objects, fs, dvcignore, clones, now, last, procs>>

-----------------------------------------------------------------------------
(* add *)

isspace(c) == c = " "

RECURSIVE lstrip(_)
lstrip(s) == IF s # <<>> /\ isspace(Head(s)) THEN lstrip(Tail(s)) ELSE s

RECURSIVE rstrip(_)
rstrip(s) ==
    IF s # <<>> /\ isspace(s[Len(s)]) THEN rstrip(SubSeq(s, 1, Len(s) - 1)) ELSE s

strip(s) == rstrip(lstrip(s))

\* (mutant) the ignore list is read from <root>/.dvcignore
get_ignored_files_in_root ==
    IF rootignore.exists
    THEN {strip(line) : line \in {l \in rootignore.lines : strip(l) # <<>>}}
    ELSE {}

\* reads self.ignore_file, which __init__ sets to <root>/.dvc/.dvcignore
get_ignored_files ==
    IF dvcignore.exists
    THEN {strip(line) : line \in {l \in dvcignore.lines : strip(l) # <<>>}}
    ELSE {}

\* the guard of add: the absolute path begins with the characters of repo_path
InRepository(abs_path) == startswith(abs_path, repo_path)

\* (mutant) a path staged before keeps its first digest
StageKeepsFirst(staged_files, rel_path, file_hash) ==
    staged_files @@ (rel_path :> file_hash)

\* staged_files[rel_path] = file_hash
Stage(staged_files, rel_path, file_hash) == (rel_path :> file_hash) @@ staged_files

\* os.path.abspath and os.path.relpath of the paths add is given, computed once
AbsPathOf == [p \in AddPaths |-> abspath(p)]
RelPathOf == [p \in AddPaths |-> relpath(abspath(p), repo_path)]
InRepositoryOf == [p \in AddPaths |-> InRepository(abspath(p))]
BaseNameOf == [p \in AddPaths |-> basename(abspath(p))]

Add(file_path) ==
    LET staged_files == meta.staging
        abs_path == AbsPathOf[file_path]
        rel_path == RelPathOf[file_path]
        ignored == get_ignored_files
        file_hash == hash_file(abs_path)
    IN  IF ~InRepositoryOf[file_path]
        THEN /\ Called("add", file_path, RetRaise("ValueError"), "")
             /\ UNCHANGED <<meta, objects, fs, dvcignore, rootignore, clones, now>>
        ELSE IF rel_path \in ignored
        THEN /\ Called("add", file_path, RetNone, "File is ignored.")
             /\ UNCHANGED <<meta, objects, fs, dvcignore, rootignore, clones, now>>
        ELSE IF fs[abs_path] = NoFile
        THEN /\ Called("add", file_path, RetRaise("FileNotFoundError"), "")
             /\ UNCHANGED <<meta, objects, fs, dvcignore, rootignore, clones, now>>
        ELSE /\ meta' = [meta EXCEPT !.staging = Stage(staged_files, rel_path, file_hash)]
             /\ objects' = objects \cup {<<file_hash, BaseNameOf[file_path]>>}
             /\ Called("add", file_path, RetNone, "File staged.")
             /\ UNCHANGED <<fs, dvcignore, rootignore, clones, now>>

-----------------------------------------------------------------------------
(* commit *)

\* datetime.now().isoformat(): each call reads the clock and finds it advanced
ClockExhausted == now >= 2 * MaxCommits

\* hashlib.sha1((message + datetime.now().isoformat()).encode()).hexdigest()
CommitId(message, time) == <<"sha1", message, time>>

\* (mutant) every commit is recorded without a parent
NewCommitOrphan(message, staged_files, head) ==
    [id |-> CommitId(message, now),
     message |-> message,
     timestamp |-> now + 1,
     files |-> staged_files,
     parent |-> None]

NewCommit(message, staged_files, head) ==
    [id |-> CommitId(message, now),
     message |-> message,
     timestamp |-> now + 1,
     files |-> staged_files,
     parent |-> head]

\* (mutant) the staging map is read and left in the document
PopStagingKeeps(metadata) == metadata

\* metadata.pop("staging", {}): the document that is saved has no staging map
PopStaging(metadata) == [metadata EXCEPT !.staging = EmptyMap]

\* (mutant) the new commit becomes the whole sequence of the branch
AppendCommitAlone(metadata, branch, commit) ==
    [metadata EXCEPT !.branches[branch] = <<commit>>, !.head = commit.id]

\* (mutant) head is left where it was
AppendCommitKeepsHead(metadata, branch, commit) ==
    [metadata EXCEPT !.branches[branch] = Append(@, commit)]

\* metadata["branches"][branch].append(commit); metadata["head"] = commit["id"]
AppendCommit(metadata, branch, commit) ==
    [metadata EXCEPT !.branches[branch] = Append(@, commit), !.head = commit.id]

Commit(message) ==
    LET branch == meta.current_branch
        head == meta.head
        staged_files == meta.staging
        popped == PopStaging(meta)
    IN  IF DOMAIN staged_files = {}
        THEN /\ Called("commit", message, RetNone, "No changes to commit.")
             /\ UNCHANGED <<meta, objects, fs, dvcignore, rootignore, clones, now>>
        ELSE /\ ~ClockExhausted
             /\ meta' = AppendCommit(popped, branch, NewCommit(message, staged_files, head))
             /\ now' = now + 2
             /\ Called("commit", message, RetNone, "Commit created.")
             /\ UNCHANGED <<objects, fs, dvcignore, rootignore, clones>>

-----------------------------------------------------------------------------
(* branch, checkout *)

\* (mutant) the new branch starts with no commits
CopyBranchEmpty(metadata, branch_name) ==
    [metadata EXCEPT !.branches = (branch_name :> <<>>) @@ @]

\* metadata["branches"][branch_name] = list(metadata["branches"][current_branch])
CopyBranch(metadata, branch_name) ==
    [metadata EXCEPT
        !.branches = (branch_name :> metadata.branches[metadata.current_branch]) @@ @]

\* (mutant) the check for an existing branch never finds one
AlreadyExistsNever(metadata, branch_name) == FALSE

\* if branch_name in metadata["branches"]
AlreadyExists(metadata, branch_name) == branch_name \in DOMAIN metadata.branches

Branch(branch_name) ==
    IF AlreadyExists(meta, branch_name)
    THEN /\ Called("branch", branch_name, RetNone, "Branch already exists.")
         /\ UNCHANGED <<meta, objects, fs, dvcignore, rootignore, clones, now>>
    ELSE /\ meta' = CopyBranch(meta, branch_name)
         /\ Called("branch", branch_name, RetNone, "Branch created.")
         /\ UNCHANGED <<objects, fs, dvcignore, rootignore, clones, now>>

\* (mutant) checkout leaves head where it was
TipIdStale(commits) == meta.head

\* branches[name][-1]["id"] if branches[name] else None
TipId(commits) == IF commits # <<>> THEN commits[Len(commits)].id ELSE None

Checkout(branch_name) ==
    IF branch_name \notin DOMAIN meta.branches
    THEN /\ Called("checkout", branch_name, RetNone, "Branch does not exist.")
         /\ UNCHANGED <<meta, objects, fs, dvcignore, rootignore, clones, now>>
    ELSE /\ meta' = [meta EXCEPT !.current_branch = branch_name,
                                 !.head = TipId(meta.branches[branch_name])]
         /\ Called("checkout", branch_name, RetNone, "Switched to branch.")
         /\ UNCHANGED <<objects, fs, dvcignore, rootignore, clones, now>>

-----------------------------------------------------------------------------
(* diff *)

\* {c["id"]: c for c in commits}: of two commits with one id the later stays
RECURSIVE ById(_, _, _)
ById(commits, i, acc) ==
    IF i > Len(commits) THEN acc
    ELSE ById(commits, i + 1, (commits[i].id :> commits[i]) @@ acc)

\* (mutant) every path the two commits share counts as modified
DiffModifiedShared(files1, files2) == DOMAIN files1 \cap DOMAIN files2

\* (mutant) removed is computed as added is
DiffRemovedAsAdded(files1, files2) == DOMAIN files2 \ DOMAIN files1

DiffAdded(files1, files2) == DOMAIN files2 \ DOMAIN files1
DiffRemoved(files1, files2) == DOMAIN files1 \ DOMAIN files2
DiffModified(files1, files2) ==
    {f \in DOMAIN files1 \cap DOMAIN files2 : files1[f] # files2[f]}

Diff(commit1_id, commit2_id) ==
    LET branch == meta.current_branch
        commits == ById(meta.branches[branch], 1, EmptyMap)
        files1 == commits[commit1_id].files
        files2 == commits[commit2_id].files
    IN  /\ IF commit1_id \notin DOMAIN commits \/ commit2_id \notin DOMAIN commits
           THEN Called("diff", <<commit1_id, commit2_id>>,
                       RetText("Error: Commit(s) not found."),
                       "One or both commits not found.")
           ELSE Called("diff", <<commit1_id, commit2_id>>,
                       RetDiff(DiffAdded(files1, files2),
                               DiffRemoved(files1, files2),
                               DiffModified(files1, files2)),
                       "Added: Removed: Modified:")
        /\ UNCHANGED <<meta, objects, fs, dvcignore, rootignore, clones, now>>

-----------------------------------------------------------------------------
(* merge *)

\* {k: v for commit in commits for k, v in commit["files"].items()}
RECURSIVE FlattenFrom(_, _, _)
FlattenFrom(commits, i, acc) ==
    IF i > Len(commits) THEN acc
    ELSE FlattenFrom(commits, i + 1, commits[i].files @@ acc)

\* (mutant) a flattening in which the earliest commit to record a path wins
RECURSIVE FlattenFirstWinsFrom(_, _, _)
FlattenFirstWinsFrom(commits, i, acc) ==
    IF i > Len(commits) THEN acc
    ELSE FlattenFirstWinsFrom(commits, i + 1, acc @@ commits[i].files)

FlattenFirstWins(commits) == FlattenFirstWinsFrom(commits, 1, EmptyMap)

\* (mutant) a flattening that reads the tip commit alone
FlattenTipOnly(commits) ==
    IF commits = <<>> THEN EmptyMap ELSE commits[Len(commits)].files

Flatten(commits) == FlattenFrom(commits, 1, EmptyMap)

\* [f for f in current_files if f in target_files and current_files[f] != target_files[f]]
Conflicts(current_files, target_files) ==
    {f \in DOMAIN current_files :
        f \in DOMAIN target_files /\ current_files[f] # target_files[f]}

\* (mutant) the pending staged files go into the merge commit too
MergedFilesAndStaged(current_files, target_files) ==
    meta.staging @@ target_files @@ current_files

\* {**current_files, **target_files}
MergedFiles(current_files, target_files) == target_files @@ current_files

\* f"merge-{datetime.now().isoformat()}"
MergeId(time) == <<"merge-", time>>

MergeCommit(target_branch, current_branch, merged_files, head) ==
    [id |-> MergeId(now),
     message |-> <<"Merge branch", target_branch, "into", current_branch>>,
     timestamp |-> now + 1,
     files |-> merged_files,
     parent |-> head]

\* what merge returns when the target branch does not exist
MergeNoBranch == RetList({})

Merge(target_branch) ==
    LET current_branch == meta.current_branch
        current_files == Flatten(meta.branches[current_branch])
        target_files == Flatten(meta.branches[target_branch])
        conflicts == Conflicts(current_files, target_files)
        merged_files == MergedFiles(current_files, target_files)
    IN  IF target_branch \notin DOMAIN meta.branches
        THEN /\ Called("merge", target_branch, MergeNoBranch, "Branch does not exist.")
             /\ UNCHANGED <<meta, objects, fs, dvcignore, rootignore, clones, now>>
        ELSE IF conflicts # {}
        THEN /\ Called("merge", target_branch, RetList(conflicts), "Conflict in file:")
             /\ UNCHANGED <<meta, objects, fs, dvcignore, rootignore, clones, now>>
        ELSE /\ ~ClockExhausted
             /\ meta' = AppendCommit(meta, current_branch,
                            MergeCommit(target_branch, current_branch,
                                        merged_files, meta.head))
             /\ now' = now + 2
             /\ Called("merge", target_branch, RetNone, "Branch successfully merged.")
             /\ UNCHANGED <<objects, fs, dvcignore, rootignore, clones>>

-----------------------------------------------------------------------------
(* clone *)

\* os.path.exists(target_path), for the targets of the model
PathExists(target_path) ==
    abspath(target_path) = repo_path \/ clones[target_path].exists

\* shutil.copytree(self.dvc_dir, target_path): the entries of .dvc land
\* directly under target_path
CopyTree ==
    [exists |-> TRUE,
     entries |-> {"metadata.json", "objects"}
                 \cup (IF dvcignore.exists THEN {".dvcignore"} ELSE {}),
     metadata |-> meta,
     objects |-> objects]

Clone(target_path) ==
    IF PathExists(target_path)
    THEN /\ Called("clone", target_path, RetNone, "Target path already exists.")
         /\ UNCHANGED <<meta, objects, fs, dvcignore, rootignore, clones, now>>
    ELSE /\ clones' = [clones EXCEPT ![target_path] = CopyTree]
         /\ Called("clone", target_path, RetNone, "Repository cloned.")
         /\ UNCHANGED <<meta, objects, fs, dvcignore, rootignore, now>>

-----------------------------------------------------------------------------
(* Two processes on one repository: add and commit as the two steps they are,
   load_metadata at the top of the method, and the rest of the method down
   to save_metadata, with nothing that keeps another process out in between *)

\* (mutant) the document is read again at the save, as under a lock
LoadedFresh(p) == meta

\* metadata = self.load_metadata(): the document as it was at the load
LoadedBy(p) == procs[p].metadata

Begin(p, op, arg) ==
    /\ procs[p].pc \in {"idle", "done"}
    /\ procs' = [procs EXCEPT ![p] = [pc |-> "loaded", op |-> op, arg |-> arg,
                                      metadata |-> meta, out |-> ""]]
    /\ UNCHANGED <<meta, objects, fs, dvcignore, rootignore, clones, now, last>>

Done(p, out) == procs' = [procs EXCEPT ![p].pc = "done", ![p].out = out]

FinishAdd(p) ==
    /\ procs[p].pc = "loaded"
    /\ procs[p].op = "add"
    /\ LET metadata == LoadedBy(p)
           file_path == procs[p].arg
           staged_files == metadata.staging
           abs_path == AbsPathOf[file_path]
           rel_path == RelPathOf[file_path]
           file_hash == hash_file(abs_path)
       IN  IF ~InRepositoryOf[file_path]
           THEN /\ Done(p, "ValueError")
                /\ UNCHANGED <<meta, objects>>
           ELSE IF rel_path \in get_ignored_files
           THEN /\ Done(p, "File is ignored.")
                /\ UNCHANGED <<meta, objects>>
           ELSE IF fs[abs_path] = NoFile
           THEN /\ Done(p, "FileNotFoundError")
                /\ UNCHANGED <<meta, objects>>
           ELSE /\ meta' = [metadata EXCEPT
                               !.staging = Stage(staged_files, rel_path, file_hash)]
                /\ objects' = objects \cup {<<file_hash, BaseNameOf[file_path]>>}
                /\ Done(p, "File staged.")
    /\ UNCHANGED <<fs, dvcignore, rootignore, clones, now, last>>

FinishCommit(p) ==
    /\ procs[p].pc = "loaded"
    /\ procs[p].op = "commit"
    /\ LET metadata == LoadedBy(p)
           message == procs[p].arg
           branch == metadata.current_branch
           head == metadata.head
           staged_files == metadata.staging
           popped == PopStaging(metadata)
       IN  IF DOMAIN staged_files = {}
           THEN /\ Done(p, "No changes to commit.")
                /\ UNCHANGED <<meta, now>>
           ELSE /\ ~ClockExhausted
                /\ meta' = AppendCommit(popped, branch,
                                        NewCommit(message, staged_files, head))
                /\ now' = now + 2
                /\ Done(p, "Commit created.")
    /\ UNCHANGED <<objects, fs, dvcignore, rootignore, clones, last>>

-----------------------------------------------------------------------------
(* Specifications *)

\* ids a caller of diff may pass: every commit id of the document, and one
\* that is no commit's id
AllIds ==
    UNION {{meta.branches[b][i].id : i \in 1 .. Len(meta.branches[b])} :
              b \in DOMAIN meta.branches}

\* The operations that write the metadata document, on the files a and b of
\* the repository; the editor rewrites a between calls. Branch f does not
\* exist until branch creates it, and it is the branch that is merged: into
\* main, into itself, and before it exists.
Next ==
    \/ WriteFile(FileA, "v2")
    \/ \E p \in RepoPaths : Add(p)
    \/ \E m \in Messages : Commit(m)
    \/ Branch("f")
    \/ \E n \in BranchNames : Checkout(n)
    \/ Merge("f")

Spec == Init /\ [][Next]_vars

\* Every method, diff and clone with them, with the one file a staged as it
\* is; clone is given the repository's own directory, a path that exists.
NextAll ==
    \/ Add(PathA)
    \/ \E m \in Messages : Commit(m)
    \/ Branch("f")
    \/ \E n \in BranchNames : Checkout(n)
    \/ \E n \in BranchNames : Merge(n)
    \/ \E i, j \in AllIds \cup {BogusId} : Diff(i, j)
    \/ Clone(RepoArg)

SpecAll == Init /\ [][NextAll]_vars

\* diff over the commits of two branches, the file a being rewritten between
\* commits and the work moving from main to f: every pair of ids of the
\* document, and the branch name the test passes for an id.
NextDiff ==
    \/ WriteFile(FileA, "v2")
    \/ \E p \in RepoPaths : Add(p)
    \/ \E m \in Messages : Commit(m)
    \/ Branch("f")
    \/ Checkout("f")
    \/ \E i, j \in AllIds : Diff(i, j)
    \/ Diff(BogusId, BogusId)

SpecDiff == Init /\ [][NextDiff]_vars

\* clone, of a repository that is being added to and committed to, to a path
\* that does not exist and to the repository's own directory.
NextClone ==
    \/ WriteFile(FileA, "v2")
    \/ \E p \in RepoPaths : Add(p)
    \/ \E m \in Messages : Commit(m)
    \/ \E t \in CloneTargets : Clone(t)

SpecClone == Init /\ [][NextClone]_vars

\* Two processes, the first adding the file a and the second the file b, and
\* both committing, their loads and saves interleaved in every order.
FileOf == <<PathA, PathB>>

NextRace ==
    \/ \E p \in Procs : Begin(p, "add", FileOf[p])
    \/ \E p \in Procs : \E m \in Messages : Begin(p, "commit", m)
    \/ \E p \in Procs : FinishAdd(p)
    \/ \E p \in Procs : FinishCommit(p)

SpecRace == Init /\ [][NextRace]_vars

\* Staging: add on every kind of path, with the ignore files being edited.
NextStaging ==
    \/ \E c \in Contents : WriteFile(FileA, c)
    \/ \E lines \in IgnoreContents : WriteDvcIgnore(lines)
    \/ \E lines \in IgnoreContents : WriteRootIgnore(lines)
    \/ \E p \in AddPaths : Add(p)

SpecStaging == Init /\ [][NextStaging]_vars

-----------------------------------------------------------------------------
(* What the properties below are stated with *)

\* A step that is the call op(arg): the editor's writes leave `last` alone
\* and change a file, a call leaves the files alone and sets `last`.
CallStep(op, arg) ==
    /\ last'.op = op
    /\ last'.arg = arg
    /\ UNCHANGED <<fs, dvcignore, rootignore>>

\* The flattened map of a commit sequence, said without folding: a path is
\* in it when some commit records it, with the digest of the last that does.
Recording(commits, path) ==
    {i \in 1 .. Len(commits) : path \in DOMAIN commits[i].files}
Recorded(commits) == UNION {DOMAIN commits[i].files : i \in 1 .. Len(commits)}
LatestDigest(commits, path) ==
    LET i == CHOOSE k \in Recording(commits, path) :
                 \A j \in Recording(commits, path) : j <= k
    IN  commits[i].files[path]
Differing(current, target) ==
    {path \in Recorded(current) \cap Recorded(target) :
        LatestDigest(current, path) # LatestDigest(target, path)}

CurrentCommits == meta.branches[meta.current_branch]
Tip(commits) == commits[Len(commits)]

-----------------------------------------------------------------------------
\* C1: merge(b) on an existing branch b whose flattened map differs from the
\* current branch's on some shared path returns exactly the set of the paths
\* on which the two flattened maps (each the fold of the whole sequence,
\* later commits overriding) differ, and leaves the metadata document as it
\* was.
C1_ConflictsAbortMerge ==
    [][\A b \in BranchNames :
        (/\ CallStep("merge", b)
         /\ b \in DOMAIN meta.branches
         /\ Differing(CurrentCommits, meta.branches[b]) # {})
        => /\ last'.ret = RetList(Differing(CurrentCommits, meta.branches[b]))
           /\ meta' = meta]_vars

\* merge has just reported a conflict on a path that the target branch's
\* tip commit does not record
C1_Witness ==
    /\ last.op = "merge"
    /\ last.out = "Conflict in file:"
    /\ \E path \in last.ret.val[1] :
          path \notin DOMAIN Tip(meta.branches[last.arg]).files

-----------------------------------------------------------------------------
\* C2: merge(b) on an existing branch b whose flattened map agrees with the
\* current branch's on every shared path appends exactly one commit to the
\* current branch, with the union of the two flattened maps as files and the
\* head before the merge as parent, sets head to its id, and leaves the
\* target branch (when it is not the current one) and every other branch,
\* and the current branch's name, as they were.
C2_MergeAppendsUnion ==
    [][\A b \in BranchNames :
        (/\ CallStep("merge", b)
         /\ b \in DOMAIN meta.branches
         /\ Differing(CurrentCommits, meta.branches[b]) = {})
        => LET cur == meta.current_branch
               old == meta.branches[cur]
               new == meta'.branches[cur]
               target == meta.branches[b]
           IN  /\ Len(new) = Len(old) + 1
               /\ SubSeq(new, 1, Len(old)) = old
               /\ DOMAIN Tip(new).files = Recorded(old) \cup Recorded(target)
               /\ \A path \in Recorded(old) :
                     Tip(new).files[path] = LatestDigest(old, path)
               /\ \A path \in Recorded(target) :
                     Tip(new).files[path] = LatestDigest(target, path)
               /\ Tip(new).parent = meta.head
               /\ meta'.head = Tip(new).id
               /\ meta'.current_branch = cur
               /\ DOMAIN meta'.branches = DOMAIN meta.branches
               /\ \A x \in DOMAIN meta.branches \ {cur} :
                     meta'.branches[x] = meta.branches[x]]_vars

\* merge of another branch has just appended a commit holding a path of
\* each branch that the other never recorded
C2_Witness ==
    /\ last.op = "merge"
    /\ last.out = "Branch successfully merged."
    /\ last.arg # meta.current_branch
    /\ LET new == CurrentCommits
           old == SubSeq(new, 1, Len(new) - 1)
           target == meta.branches[last.arg]
       IN  /\ Recorded(target) \ Recorded(old) # {}
           /\ Recorded(old) \ Recorded(target) # {}
           /\ DOMAIN Tip(new).files = Recorded(old) \cup Recorded(target)

-----------------------------------------------------------------------------
\* C3: the value merge(b) returns tells success from failure, for any name b:
\* unless it is a non-empty list, a commit whose id begins with "merge-" has
\* been appended to the current branch; when it is a non-empty list, nothing
\* has been appended.
C3_ReturnTellsSuccess ==
    [][\A b \in BranchNames :
        CallStep("merge", b)
        => LET old == CurrentCommits
               new == meta'.branches[meta.current_branch]
           IN  IF last'.ret.kind = "list" /\ last'.ret.val[1] # {}
               THEN new = old
               ELSE /\ Len(new) = Len(old) + 1
                    /\ SubSeq(new, 1, Len(old)) = old
                    /\ Tip(new).id[1] = "merge-"]_vars

-----------------------------------------------------------------------------
\* the name below the repository directory of a path given as r/<name>
RepoKey(path) == SubSeq(path, Len(RepoArg) + 2, Len(path))

\* C4: when merge reports conflicts, the list it returns holds every
\* conflicting file's path as it was passed to add (r/a, not a).
C4_ConflictListsPathAsAdded ==
    (last.op = "merge" /\ last.out = "Conflict in file:")
    => \A path \in RepoPaths :
          RepoKey(path) \in Differing(CurrentCommits, meta.branches[last.arg])
          => path \in last.ret.val[1]

-----------------------------------------------------------------------------
\* C5: branch(n), for a name n that does not exist, binds n to a copy of the
\* current branch's commit sequence and changes no other branch, nor
\* current_branch, head or staging; and in every step the branches other than
\* the current one keep their sequences, no commit appended to the current
\* branch being in another branch's sequence.
C5_BranchIsAValueCopy ==
    [][/\ \A n \in BranchNames :
            (CallStep("branch", n) /\ n \notin DOMAIN meta.branches)
            => /\ DOMAIN meta'.branches = DOMAIN meta.branches \cup {n}
               /\ meta'.branches[n] = CurrentCommits
               /\ \A x \in DOMAIN meta.branches :
                     meta'.branches[x] = meta.branches[x]
               /\ meta'.current_branch = meta.current_branch
               /\ meta'.head = meta.head
               /\ meta'.staging = meta.staging
       /\ \A x \in DOMAIN meta.branches :
            /\ x \in DOMAIN meta'.branches
            /\ x # meta.current_branch => meta'.branches[x] = meta.branches[x]
            /\ x = meta.current_branch
               => \A i \in Len(meta.branches[x]) + 1 .. Len(meta'.branches[x]) :
                    \A y \in DOMAIN meta'.branches \ {x} :
                       \A j \in 1 .. Len(meta'.branches[y]) :
                          meta'.branches[y][j] # meta'.branches[x][i]]_vars

\* branch f was copied from main when main had commits, and has a commit
\* since that main has not
C5_Witness ==
    /\ "f" \in DOMAIN meta.branches
    /\ LET main == meta.branches["main"]
           f == meta.branches["f"]
       IN  /\ main # <<>>
           /\ Len(f) > Len(main)
           /\ SubSeq(f, 1, Len(main)) = main

-----------------------------------------------------------------------------
\* C6: add(f) on a file of the repository stages under f's name below the
\* repository the digest of the bytes f holds at that moment, over any
\* digest staged for it before and beside the other entries; nothing but add
\* and a successful commit changes the staging map (the editor rewriting f
\* does not); and commit with a non-empty staging map appends one commit
\* whose files map is that staging map.
C6_CommitRecordsDigestAtAdd ==
    [][/\ \A path \in RepoPaths :
            CallStep("add", path)
            => /\ DOMAIN meta'.staging = DOMAIN meta.staging \cup {RepoKey(path)}
               /\ meta'.staging[RepoKey(path)] = Sha1(fs[Cwd \o <<"/">> \o path])
               /\ \A k \in DOMAIN meta.staging \ {RepoKey(path)} :
                     meta'.staging[k] = meta.staging[k]
       /\ \A m \in Messages :
            (CallStep("commit", m) /\ DOMAIN meta.staging # {})
            => LET old == CurrentCommits
                   new == meta'.branches[meta.current_branch]
               IN  /\ Len(new) = Len(old) + 1
                   /\ SubSeq(new, 1, Len(old)) = old
                   /\ Tip(new).files = meta.staging
       /\ (fs' # fs \/ last'.op \notin {"add", "commit"})
          => meta'.staging = meta.staging]_vars

\* commit has just recorded for a the digest of the bytes a held when it was
\* added, which are not the bytes a holds now
C6_Witness ==
    /\ last.op = "commit"
    /\ last.out = "Commit created."
    /\ <<"a">> \in DOMAIN Tip(CurrentCommits).files
    /\ Tip(CurrentCommits).files[<<"a">>] = Sha1("v1")
    /\ fs[FileA] = "v2"

-----------------------------------------------------------------------------
IdsOf(commits) == {commits[i].id : i \in 1 .. Len(commits)}

\* a call that finds nothing to do
NothingToDo ==
    \/ \E m \in Messages : CallStep("commit", m) /\ DOMAIN meta.staging = {}
    \/ \E n \in BranchNames : CallStep("branch", n) /\ n \in DOMAIN meta.branches
    \/ \E n \in BranchNames : CallStep("checkout", n) /\ n \notin DOMAIN meta.branches
    \/ \E n \in BranchNames : CallStep("merge", n) /\ n \notin DOMAIN meta.branches
    \/ /\ last'.op = "diff"
       /\ UNCHANGED <<fs, dvcignore, rootignore>>
       /\ \E k \in 1 .. 2 : last'.arg[k] \notin IdsOf(CurrentCommits)
    \/ CallStep("clone", RepoArg)

\* C7: commit with nothing staged, branch with a name that exists, checkout
\* and merge of a branch that does not exist, diff with an id that is not in
\* the current branch and clone to a path that exists leave the metadata
\* document, the object store and the clone targets as they were, and raise
\* no error.
C7_NothingToDoChangesNothing ==
    [][NothingToDo
       => /\ meta' = meta
          /\ objects' = objects
          /\ clones' = clones
          /\ ~Raised(last'.ret)]_vars

\* diff has just been given the id of a commit that is on another branch
\* only, and reported it as not found
C7_Witness ==
    /\ last.op = "diff"
    /\ last.out = "One or both commits not found."
    /\ last.arg[1] \notin IdsOf(CurrentCommits)
    /\ \E b \in DOMAIN meta.branches : last.arg[1] \in IdsOf(meta.branches[b])

-----------------------------------------------------------------------------
\* a path that, component by component, is not below the repository root
OutsideRepository(path) ==
    LET parts == Parts(abspath(path))
        root == Parts(repo_path)
    IN  ~(Len(parts) >= Len(root) /\ SubSeq(parts, 1, Len(root)) = root)

\* C8: add on a path outside the repository root raises an error and leaves
\* the staging map and the object store as they were, the sibling directory
\* /w/r2 of the root /w/r included.
C8_OutsidePathsAreRefused ==
    [][\A path \in AddPaths :
        (CallStep("add", path) /\ OutsideRepository(path))
        => /\ Raised(last'.ret)
           /\ meta'.staging = meta.staging
           /\ objects' = objects]_vars

-----------------------------------------------------------------------------
\* the paths an ignore file lists: its lines without the space around them,
\* blank lines left out
Listed(ignore_file) ==
    IF ignore_file.exists
    THEN {strip(line) : line \in ignore_file.lines} \ {<<>>}
    ELSE {}

-----------------------------------------------------------------------------
\* C10: add on a path that the file .dvcignore of the repository root lists
\* does not put the path into the staging map.
C10_RootIgnoreFileIsRead ==
    [][\A path \in AddPaths :
        (/\ CallStep("add", path)
         /\ RelPathOf[path] \in Listed(rootignore)
         /\ RelPathOf[path] \notin DOMAIN meta.staging)
        => RelPathOf[path] \notin DOMAIN meta'.staging]_vars

-----------------------------------------------------------------------------
\* C11: checkout(b) on an existing branch b makes b the current branch and
\* sets head to the id of the last commit of b's sequence, or to null when
\* the sequence is empty; no branch's sequence changes, nor the staging map.
C11_CheckoutMovesHead ==
    [][\A b \in BranchNames :
        (CallStep("checkout", b) /\ b \in DOMAIN meta.branches)
        => /\ meta'.current_branch = b
           /\ meta'.head = IF meta.branches[b] = <<>> THEN None
                           ELSE Tip(meta.branches[b]).id
           /\ meta'.branches = meta.branches
           /\ meta'.staging = meta.staging]_vars

\* checkout has just moved head to the tip of a branch whose tip is not the
\* other branch's, with a file staged
C11_Witness ==
    /\ last.op = "checkout"
    /\ last.out = "Switched to branch."
    /\ meta.current_branch = last.arg
    /\ meta.head # None
    /\ DOMAIN meta.staging # {}
    /\ \E b \in DOMAIN meta.branches :
          /\ meta.branches[b] # <<>>
          /\ Tip(meta.branches[b]).id # meta.head

-----------------------------------------------------------------------------
\* the commit of a sequence that has the id, and the names a line of diff's
\* report lists
CommitOf(commits, id) ==
    commits[CHOOSE k \in 1 .. Len(commits) : commits[k].id = id]
Names(line) == IF line = {<<"N", "o", "n", "e">>} THEN {} ELSE line
DiffStep(i, j) == CallStep("diff", <<i, j>>)

\* C12: diff(A, B), both ids being of commits of the current branch, reports
\* as added the paths of B's files that A's files lack, as removed the paths
\* of A's files that B's lack, and as modified the paths of both whose
\* digests differ; an id that is of no commit of the current branch, one of
\* a commit of another branch included, is reported as not found.
C12_DiffReportsSets ==
    [][\A i, j \in AllIds \cup {BogusId} :
        DiffStep(i, j)
        => IF {i, j} \subseteq IdsOf(CurrentCommits)
           THEN LET A == CommitOf(CurrentCommits, i).files
                    B == CommitOf(CurrentCommits, j).files
                IN  /\ last'.ret.kind = "diff"
                    /\ Names(last'.ret.val[1]) = DOMAIN B \ DOMAIN A
                    /\ Names(last'.ret.val[2]) = DOMAIN A \ DOMAIN B
                    /\ Names(last'.ret.val[3])
                         = {p \in DOMAIN A \cap DOMAIN B : A[p] # B[p]}
           ELSE last'.ret = RetText("Error: Commit(s) not found.")]_vars

\* diff has just reported a as modified, and nothing added or removed,
\* between a commit of a's first bytes and a commit of its second
C12_Witness ==
    /\ last.op = "diff"
    /\ last.ret.kind = "diff"
    /\ CommitOf(CurrentCommits, last.arg[1]).files = (<<"a">> :> Sha1("v1"))
    /\ CommitOf(CurrentCommits, last.arg[2]).files = (<<"a">> :> Sha1("v2"))
    /\ Names(last.ret.val[1]) = {}
    /\ Names(last.ret.val[2]) = {}
    /\ Names(last.ret.val[3]) = {<<"a">>}

-----------------------------------------------------------------------------
\* C13: for commits c1, c2 of the current branch, what diff(c1, c2) reports
\* as added is what diff(c2, c1) reports as removed, and the other way round;
\* the two calls report the same paths as modified; and diff(c, c) reports
\* nothing added, removed or modified.
C13_DiffIsSymmetric ==
    [][\A i, j \in AllIds :
        (DiffStep(i, j) /\ {i, j} \subseteq IdsOf(CurrentCommits))
        => LET files1 == CommitOf(CurrentCommits, i).files
               files2 == CommitOf(CurrentCommits, j).files
               reverse == RetDiff(DiffAdded(files2, files1),
                                  DiffRemoved(files2, files1),
                                  DiffModified(files2, files1))
           IN  /\ last'.ret.kind = "diff"
               /\ last'.ret.val[1] = reverse.val[2]
               /\ last'.ret.val[2] = reverse.val[1]
               /\ last'.ret.val[3] = reverse.val[3]
               /\ i = j => \A k \in 1 .. 3 : Names(last'.ret.val[k]) = {}]_vars

\* diff has just reported a path as added and another as removed
C13_Witness ==
    /\ last.op = "diff"
    /\ last.ret.kind = "diff"
    /\ last.arg[1] # last.arg[2]
    /\ Names(last.ret.val[1]) # {}
    /\ Names(last.ret.val[2]) # {}
    /\ Names(last.ret.val[1]) # Names(last.ret.val[2])

-----------------------------------------------------------------------------
\* C14: after clone(t) on a path t that did not exist, t holds a control
\* directory .dvc (the path t/.dvc exists).
C14_CloneHoldsControlDirectory ==
    \A t \in CloneTargets : clones[t].exists => ".dvc" \in clones[t].entries

-----------------------------------------------------------------------------
\* C15: two processes that each run a mutating method as a load of the whole
\* document, a change and a save of the whole document, with no lock, lose
\* updates. A save writes the document its process loaded with that process's
\* own change and nothing else: what another process saved in between is
\* gone. (The state in which both calls have reported success and one
\* effect is missing is C15_Witness.)
C15_SaveWritesLoadedDocument ==
    [][\A p \in Procs :
        (procs[p].pc = "loaded" /\ procs'[p].pc = "done")
        => LET loaded == procs[p].metadata
               cur == loaded.current_branch
           IN  /\ procs'[p].out = "File staged."
                  => /\ meta'.branches = loaded.branches
                     /\ DOMAIN meta'.staging
                          = DOMAIN loaded.staging \cup {RepoKey(procs[p].arg)}
                     /\ \A k \in DOMAIN loaded.staging \ {RepoKey(procs[p].arg)} :
                           meta'.staging[k] = loaded.staging[k]
               /\ procs'[p].out = "Commit created."
                  => /\ DOMAIN meta'.staging = {}
                     /\ Len(meta'.branches[cur]) = Len(loaded.branches[cur]) + 1
                     /\ SubSeq(meta'.branches[cur], 1, Len(loaded.branches[cur]))
                          = loaded.branches[cur]
                     /\ Tip(meta'.branches[cur]).files = loaded.staging
               /\ procs'[p].out \notin {"File staged.", "Commit created."}
                  => meta' = meta]_vars

\* both processes have added their file and been told it is staged, nothing
\* has been committed, and one of the two files is not in the staging map
C15_Witness ==
    /\ \A p \in Procs :
          /\ procs[p].pc = "done"
          /\ procs[p].op = "add"
          /\ procs[p].out = "File staged."
    /\ procs[1].arg # procs[2].arg
    /\ \A b \in DOMAIN meta.branches : meta.branches[b] = <<>>
    /\ \E p \in Procs : RepoKey(procs[p].arg) \notin DOMAIN meta.staging

-----------------------------------------------------------------------------
\* C16: in every step each branch keeps its name, and its commit sequence
\* before the step is a prefix of its sequence after it; a step appends at
\* most one commit in all, and to the branch that is current in that step.
C16_BranchesAreAppendOnly ==
    [][\A b \in DOMAIN meta.branches :
        /\ b \in DOMAIN meta'.branches
        /\ Len(meta'.branches[b]) >= Len(meta.branches[b])
        /\ SubSeq(meta'.branches[b], 1, Len(meta.branches[b])) = meta.branches[b]
        /\ Len(meta'.branches[b]) <= Len(meta.branches[b]) + 1
        /\ Len(meta'.branches[b]) > Len(meta.branches[b])
           => b = meta.current_branch]_vars

\* a commit has just been appended to a branch that had commits, another
\* branch holding a sequence of its own
C16_Witness ==
    /\ last.out \in {"Commit created.", "Branch successfully merged."}
    /\ Len(CurrentCommits) >= 2
    /\ \E b \in DOMAIN meta.branches :
          /\ meta.branches[b] # <<>>
          /\ Tip(meta.branches[b]) # Tip(CurrentCommits)

-----------------------------------------------------------------------------
\* C17: a commit that finds files staged leaves the staging map empty; a
\* commit called next after it, with no add in between, creates no commit and
\* changes nothing.
C17_CommitEmptiesStaging ==
    [][\A m \in Messages :
        CallStep("commit", m)
        => /\ DOMAIN meta.staging # {} => DOMAIN meta'.staging = {}
           /\ (last.op = "commit" /\ last.out = "Commit created.")
              => /\ meta' = meta
                 /\ objects' = objects
                 /\ last'.out = "No changes to commit."]_vars

\* commit has just found nothing staged, the current branch ending in a
\* commit that recorded staged files
C17_Witness ==
    /\ last.op = "commit"
    /\ last.out = "No changes to commit."
    /\ CurrentCommits # <<>>
    /\ DOMAIN Tip(CurrentCommits).files # {}
    /\ Tip(CurrentCommits).id[1] = "sha1"
    /\ DOMAIN meta.staging = {}

-----------------------------------------------------------------------------
\* C18: in every state reached by add, commit, branch, checkout and merge,
\* current_branch names a branch of the document, and head is the id of the
\* last commit of that branch's sequence, or null when the sequence is empty
\* and only then.
C18_HeadIsCurrentTip ==
    /\ meta.current_branch \in DOMAIN meta.branches
    /\ CurrentCommits = <<>> <=> meta.head = None
    /\ CurrentCommits # <<>> => meta.head = Tip(CurrentCommits).id

\* main is current again after commits on f, a merge of f into it has just
\* moved head, and f ends in another commit
C18_Witness ==
    /\ last.out = "Branch successfully merged."
    /\ meta.current_branch = "main"
    /\ meta.head = Tip(meta.branches["main"]).id
    /\ "f" \in DOMAIN meta.branches
    /\ meta.branches["f"] # <<>>
    /\ Tip(meta.branches["f"]).id # meta.head
    /\ Tip(meta.branches["f"]) \notin {meta.branches["main"][i] :
                                         i \in 1 .. Len(meta.branches["main"])}

-----------------------------------------------------------------------------
\* C19: in every state and for every branch, those made by branch and the
\* commits made by merge included, the first commit of the sequence has the
\* parent null and every later commit has for parent the id of the commit
\* just before it in that sequence.
C19_ParentsChainTheSequence ==
    \A b \in DOMAIN meta.branches :
       \A i \in 1 .. Len(meta.branches[b]) :
          meta.branches[b][i].parent
             = IF i = 1 THEN None ELSE meta.branches[b][i - 1].id

\* branch f, made by branch from a main that had a commit, has since got a
\* commit of its own and a merge commit
C19_Witness ==
    /\ "f" \in DOMAIN meta.branches
    /\ LET f == meta.branches["f"]
       IN  /\ Len(f) = 3
           /\ meta.branches["main"] # <<>>
           /\ f[1] = meta.branches["main"][1]
           /\ f[2].id[1] = "sha1"
           /\ f[3].id[1] = "merge-"
           /\ f[3].parent = f[2].id

-----------------------------------------------------------------------------
\* C20: branch, checkout and merge, whether merge reports conflicts or
\* appends its commit, leave the staging map as it was; the commit merge
\* appends holds the files the two branches record and takes nothing from the
\* staging map; and commit appends the staged files to the branch that is
\* current when it runs, whichever was current when they were staged.
C20_StagingOutlivesBranchSwitch ==
    [][/\ \A b \in BranchNames :
            (CallStep("branch", b) \/ CallStep("checkout", b) \/ CallStep("merge", b))
            => /\ meta'.staging = meta.staging
               /\ last'.out = "Branch successfully merged."
                  => DOMAIN Tip(meta'.branches[meta.current_branch]).files
                       = Recorded(CurrentCommits) \cup Recorded(meta.branches[b])
       /\ \A m \in Messages :
            (CallStep("commit", m) /\ DOMAIN meta.staging # {})
            => /\ Tip(meta'.branches[meta.current_branch]).files = meta.staging
               /\ \A b \in DOMAIN meta.branches \ {meta.current_branch} :
                     meta'.branches[b] = meta.branches[b]]_vars

\* merge has just appended its commit while a file was staged, and the
\* commit does not hold that file as it is staged
C20_Witness ==
    /\ last.op = "merge"
    /\ last.out = "Branch successfully merged."
    /\ last.arg # meta.current_branch
    /\ \E path \in DOMAIN meta.staging :
          \/ path \notin DOMAIN Tip(CurrentCommits).files
          \/ Tip(CurrentCommits).files[path] # meta.staging[path]

====
